---- MODULE Spec2Model ----
(***************************************************************************)
(* Model of src/main.c: an ATmega324A washing-machine controller.          *)
(*                                                                         *)
(* The program is three interrupt handlers (INT0 = Start button, INT1 =    *)
(* Reset button, TIMER1_COMPA = the cycle tick) and a main loop that       *)
(* multiplexes a two-digit seven-segment display.  The AVR clears the      *)
(* global interrupt flag on entry to a handler, so handlers run to         *)
(* completion and never nest: each handler is one action.  The main loop   *)
(* can be preempted between any two of its statements: each statement that *)
(* touches a volatile or a port is one step, located by pc.                *)
(*                                                                         *)
(* Registers keep their names.  Registers the program writes as bit masks  *)
(* (EIMSK, EIFR, TIMSK1, TCCR1B) are modelled as the set of bits that are  *)
(* 1; PIND, OCR0B, PORTC and PORTA are modelled as the byte value.         *)
(***************************************************************************)
EXTENDS Integers, Sequences, FiniteSets, TLC

VARIABLES
    PIND,         \* input port D: bits 0..1 water level, bit 4 extended switch
    timeCounter,  \* volatile uint8_t timeCounter
    finished,     \* volatile uint8_t finished
    OCR0B,        \* PWM compare value (duty-cycle output)
    PORTC,        \* the four pattern LEDs
    TIMSK1,       \* timer 1 interrupt mask, set of bits that are 1
    TCCR1B,       \* timer 1 control register B, set of bits that are 1
    EIMSK,        \* external interrupt mask, set of bits that are 1
    EIFR,         \* external interrupt flags latched and not yet served
    digit,        \* volatile uint8_t digit
    indexNumber,  \* volatile uint8_t indexNumber
    PORTA,        \* seven-segment bus: bits 0..6 segments, bit 7 digit select
    TIFR2,        \* timer 2 flag register, set of bits that are 1
    pc,           \* position of the main loop
    nTicks,       \* history: TIMER1_COMPA handlers run since the last Start
    held,         \* history: the mode read at Start and at every tick since
    last,         \* history: the last handler run, the mode it read and the
                  \*          value of finished it found
    nInc,         \* history: executions of timeCounter += 1 since the last Start
    tickArg,      \* uint8_t argument handed to a pattern function
    patOut        \* the pattern function last called on tickArg and its result

vars == <<PIND, timeCounter, finished, OCR0B, PORTC, TIMSK1, TCCR1B, EIMSK,
          EIFR, digit, indexNumber, PORTA, TIFR2, pc, nTicks, held, last, nInc,
          tickArg, patOut>>

cycleVars == <<timeCounter, finished, OCR0B, PORTC, TIMSK1, TCCR1B, EIMSK, EIFR>>
loopVars == <<digit, indexNumber, PORTA, TIFR2, pc>>
histVars == <<nTicks, held, last, nInc>>
patVars == <<tickArg, patOut>>

----------------------------------------------------------------------------
(* Byte arithmetic *)

Byte == 256

\* 1 << n
Shl1(n) == 2 ^ n

\* x & 3
And3(x) == x % 4

\* x & 16
And16(x) == ((x \div 16) % 2) * 16

\* x & 0x7F
And7F(x) == x % 128

----------------------------------------------------------------------------
(* Tables and selector macros *)

seven_seg == <<8, 1, 64, 121, 84>>

\* variant: the 50% and 90% compare values in the wrong order
pwm_m == <<230, 26, 128>>

pwm == <<230, 128, 26>>

\* the values PIND can take: water level on pins 0..1, mode switch on pin 4
PINDValues == {0, 1, 2, 3, 16, 17, 18, 19}

\* variant: the error check is missing from the macro
EXTENDED_m == And16(PIND) = 16

EXTENDED == (And16(PIND) = 16) /\ (And3(PIND) # 3)

\* variant: the error check is missing from the macro
NORMAL_m == And16(PIND) = 0

NORMAL == (And16(PIND) = 0) /\ (And3(PIND) # 3)

\* the water-level selector, pins 0..1 (3 is the error reading)
waterLevel == And3(PIND)

\* the mode switch, pin 4
extendedSelected == And16(PIND) = 16

\* the mode the two macros classify the selector into
Mode == IF EXTENDED THEN "Extended" ELSE IF NORMAL THEN "Normal" ELSE "Invalid"

----------------------------------------------------------------------------
(* Pattern functions *)

\* variant: the pattern advances on every tick instead of every second tick
washCycle_m(t) ==
    IF t % 16 < 8
    THEN Shl1(t % 4)
    ELSE 15

\* variant: the LED position is taken modulo 8
washCycle_m2(t) ==
    IF (t \div 2) % 16 < 8
    THEN Shl1((t \div 2) % 8)
    ELSE 15

washCycle(t) ==
    IF (t \div 2) % 16 < 8
    THEN Shl1((t \div 2) % 4)
    ELSE 15

\* variant: the blink is keyed on the half tick
rinseCycle_m(t) ==
    IF (t \div 2) % 16 < 8
    THEN Shl1(3 - ((t \div 2) % 4))
    ELSE IF (t \div 2) % 4 < 2 THEN 15 ELSE 0

rinseCycle(t) ==
    IF (t \div 2) % 16 < 8
    THEN Shl1(3 - ((t \div 2) % 4))
    ELSE IF t % 4 < 2 THEN 15 ELSE 0

\* variant: the second sweep runs in the same direction as the first
spinCycle_m(t) ==
    IF (t \div 2) % 16 < 4
    THEN Shl1((t \div 2) % 4)
    ELSE IF (t \div 2) % 16 < 8
         THEN Shl1((t \div 2) % 4)
         ELSE IF t % 2 = 0 THEN 15 ELSE 0

spinCycle(t) ==
    IF (t \div 2) % 16 < 4
    THEN Shl1((t \div 2) % 4)
    ELSE IF (t \div 2) % 16 < 8
         THEN Shl1(3 - ((t \div 2) % 4))
         ELSE IF t % 2 = 0 THEN 15 ELSE 0

----------------------------------------------------------------------------
(* reset() and startSystem() *)

\* variant: the pattern LEDs are not turned off
reset_m ==
    /\ timeCounter' = 0
    /\ TIMSK1' = {}
    /\ OCR0B' = 255
    /\ PORTC' = PORTC
    /\ TCCR1B' = {}
    /\ EIMSK' = {"INT0", "INT1"}
    /\ EIFR' = {}

reset ==
    /\ timeCounter' = 0
    /\ TIMSK1' = {}
    /\ OCR0B' = 255
    /\ PORTC' = 0
    /\ TCCR1B' = {}
    /\ EIMSK' = {"INT0", "INT1"}
    /\ EIFR' = {}

\* variant: the PWM is started at the 50% compare value
startSystem_m ==
    /\ timeCounter' = 0
    /\ PORTC' = 1
    /\ OCR0B' = pwm[1 + 1]
    /\ TCCR1B' = {"WGM12", "CS12"}
    /\ TIMSK1' = {"OCIE1A"}
    /\ EIMSK' = {"INT1"}
    /\ EIFR' = {}

\* variant: the Start interrupt is left enabled
startSystem_m2 ==
    /\ timeCounter' = 0
    /\ PORTC' = 1
    /\ OCR0B' = pwm[0 + 1]
    /\ TCCR1B' = {"WGM12", "CS12"}
    /\ TIMSK1' = {"OCIE1A"}
    /\ EIMSK' = {"INT0", "INT1"}
    /\ EIFR' = {}

startSystem ==
    /\ timeCounter' = 0
    /\ PORTC' = 1
    /\ OCR0B' = pwm[0 + 1]
    /\ TCCR1B' = {"WGM12", "CS12"}
    /\ TIMSK1' = {"OCIE1A"}
    /\ EIMSK' = {"INT1"}
    /\ EIFR' = {}

----------------------------------------------------------------------------
\* a cycle is running: the timer 1 compare interrupt is enabled
active == "OCIE1A" \in TIMSK1

----------------------------------------------------------------------------
(* State after main() has run its set-up, at the top of while(1) *)

\* the registers and globals
MachineInit ==
    /\ PIND \in PINDValues
    /\ timeCounter = 0
    /\ finished = 0
    /\ OCR0B = 255
    /\ PORTC = 0
    /\ TIMSK1 = {}
    /\ TCCR1B = {"WGM12"}
    /\ EIMSK = {"INT0", "INT1"}
    /\ EIFR = {}
    /\ digit = 0
    /\ indexNumber = 0
    /\ PORTA = 0
    /\ TIFR2 = {}
    /\ pc = "L168"
    /\ nTicks = 0
    /\ held = "none"
    /\ last = [ev |-> "none", mode |-> "none", fin |-> 0]
    /\ nInc = 0

Init ==
    /\ MachineInit
    /\ tickArg = 0
    /\ patOut = [fn |-> "none", val |-> 0]

----------------------------------------------------------------------------
(* The operator moves the water-level switches or the mode switch *)

SelectorChange ==
    /\ PIND' \in PINDValues \ {PIND}
    /\ UNCHANGED <<cycleVars, loopVars, histVars, patVars>>

----------------------------------------------------------------------------
(* Start button: rising edge on D2 *)

\* variant: finished is not cleared when a cycle is started
INT0_vect_m ==
    /\ "INT0" \in EIMSK
    /\ IF EXTENDED \/ NORMAL
       THEN /\ startSystem
            /\ held' = Mode
            /\ nTicks' = 0
            /\ nInc' = 0
       ELSE /\ UNCHANGED <<timeCounter, PORTC, OCR0B, TCCR1B, TIMSK1, EIMSK, EIFR>>
            /\ UNCHANGED <<held, nTicks, nInc>>
    /\ finished' = finished
    /\ last' = [ev |-> "Start", mode |-> Mode, fin |-> finished]
    /\ UNCHANGED <<PIND, loopVars, patVars>>

\* The edge arrives while INT0 is enabled in EIMSK: the handler runs.
INT0_vect ==
    /\ "INT0" \in EIMSK
    /\ IF EXTENDED \/ NORMAL
       THEN /\ startSystem
            /\ held' = Mode
            /\ nTicks' = 0
            /\ nInc' = 0
       ELSE /\ UNCHANGED <<timeCounter, PORTC, OCR0B, TCCR1B, TIMSK1, EIMSK, EIFR>>
            /\ UNCHANGED <<held, nTicks, nInc>>
    /\ finished' = IF finished = 1 THEN 0 ELSE finished
    /\ last' = [ev |-> "Start", mode |-> Mode, fin |-> finished]
    /\ UNCHANGED <<PIND, loopVars, patVars>>

\* The edge arrives while INT0 is masked: the hardware latches INTF0 and no
\* handler runs until the mask bit is set again.
StartEdgeMasked ==
    /\ "INT0" \notin EIMSK
    /\ EIFR' = EIFR \cup {"INTF0"}
    /\ UNCHANGED <<PIND, timeCounter, finished, OCR0B, PORTC, TIMSK1, TCCR1B,
                   EIMSK, loopVars, histVars, patVars>>

----------------------------------------------------------------------------
(* Reset button: rising edge on D3 *)

\* variant: the Reset handler also restarts the display at the right digit
INT1_vect_m ==
    /\ "INT1" \in EIMSK
    /\ reset
    /\ finished' = 0
    /\ held' = "none"
    /\ nTicks' = 0
    /\ nInc' = 0
    /\ last' = [ev |-> "Reset", mode |-> Mode, fin |-> finished]
    /\ digit' = 0
    /\ UNCHANGED <<PIND, indexNumber, PORTA, TIFR2, pc, patVars>>

INT1_vect ==
    /\ "INT1" \in EIMSK
    /\ reset
    /\ finished' = 0
    /\ held' = "none"
    /\ nTicks' = 0
    /\ nInc' = 0
    /\ last' = [ev |-> "Reset", mode |-> Mode, fin |-> finished]
    /\ UNCHANGED <<PIND, loopVars, patVars>>

----------------------------------------------------------------------------
(* Timer 1 compare match A *)

\* variant: the end of the cycle does not set finished
cycleStep_m(rinseEnd, spinEnd) ==
    LET t == (timeCounter + 1) % Byte IN
    IF t < 32
    THEN /\ timeCounter' = t
         /\ PORTC' = washCycle(t)
         /\ UNCHANGED <<OCR0B, TIMSK1, TCCR1B, EIMSK, EIFR, finished>>
    ELSE IF t < rinseEnd
    THEN /\ timeCounter' = t
         /\ OCR0B' = pwm[1 + 1]
         /\ PORTC' = rinseCycle(t)
         /\ UNCHANGED <<TIMSK1, TCCR1B, EIMSK, EIFR, finished>>
    ELSE IF t < spinEnd
    THEN /\ timeCounter' = t
         /\ OCR0B' = pwm[2 + 1]
         /\ PORTC' = spinCycle(t)
         /\ UNCHANGED <<TIMSK1, TCCR1B, EIMSK, EIFR, finished>>
    ELSE /\ reset
         /\ finished' = finished

\* lines 216-231 and 234-249: the two branches differ only in the tick at
\* which the rinse ends and the tick at which the spin ends
cycleStep(rinseEnd, spinEnd) ==
    LET t == (timeCounter + 1) % Byte IN
    IF t < 32
    THEN /\ timeCounter' = t
         /\ PORTC' = washCycle(t)
         /\ UNCHANGED <<OCR0B, TIMSK1, TCCR1B, EIMSK, EIFR, finished>>
    ELSE IF t < rinseEnd
    THEN /\ timeCounter' = t
         /\ OCR0B' = pwm[1 + 1]
         /\ PORTC' = rinseCycle(t)
         /\ UNCHANGED <<TIMSK1, TCCR1B, EIMSK, EIFR, finished>>
    ELSE IF t < spinEnd
    THEN /\ timeCounter' = t
         /\ OCR0B' = pwm[2 + 1]
         /\ PORTC' = spinCycle(t)
         /\ UNCHANGED <<TIMSK1, TCCR1B, EIMSK, EIFR, finished>>
    ELSE /\ reset
         /\ finished' = 1

\* variant: the extended cycle ends its rinse at the normal cycle's tick
extendedBranch_m == cycleStep(64, 128)

\* variant: the extended cycle ends on timeCounter <= 128
extendedBranch_m2 == cycleStep(96, 129)

extendedBranch == cycleStep(96, 128)

\* variant: the spin of the normal cycle ends one tick early
normalBranch_m == cycleStep(64, 95)

normalBranch == cycleStep(64, 96)

\* The compare match is served when timer 1 is clocked (CS12) and its
\* interrupt is enabled (OCIE1A).
TIMER1_COMPA_vect ==
    /\ "CS12" \in TCCR1B
    /\ "OCIE1A" \in TIMSK1
    /\ IF EXTENDED THEN extendedBranch
       ELSE IF NORMAL THEN normalBranch
       ELSE UNCHANGED cycleVars
    /\ held' = IF held = Mode THEN held ELSE "mixed"
    /\ nTicks' = IF held = Mode THEN nTicks + 1 ELSE 0
    /\ nInc' = IF EXTENDED \/ NORMAL THEN nInc + 1 ELSE nInc
    /\ last' = [ev |-> "Tick", mode |-> Mode, fin |-> finished]
    /\ UNCHANGED <<PIND, loopVars, patVars>>

----------------------------------------------------------------------------
(* Main loop: display multiplexing *)

\* variant: the completion glyph is never shown
display_m(i, d, f) ==
    And7F(seven_seg[i + 1]) + d * 128

display(i, d, f) ==
    IF f = 0
    THEN And7F(seven_seg[i + 1]) + d * 128
    ELSE 63 + d * 128

\* lines 168-176: choose the seven_seg index for the current digit
SelectIndex ==
    /\ pc = "L168"
    /\ indexNumber' = IF digit = 0
                      THEN And3(PIND)
                      ELSE IF And16(PIND) = 16 THEN 3 ELSE 4
    /\ pc' = "L178"
    /\ UNCHANGED <<PIND, cycleVars, digit, PORTA, TIFR2, histVars,
                   patVars>>

\* line 178
WriteDisplay ==
    /\ pc = "L178"
    /\ PORTA' = display(indexNumber, digit, finished)
    /\ pc' = "L180"
    /\ UNCHANGED <<PIND, cycleVars, digit, indexNumber, TIFR2, histVars,
                   patVars>>

\* line 180
ToggleDigit ==
    /\ pc = "L180"
    /\ digit' = 1 - digit
    /\ pc' = "L187"
    /\ UNCHANGED <<PIND, cycleVars, indexNumber, PORTA, TIFR2, histVars,
                   patVars>>

\* lines 187-191: leave the busy-wait once OCF2A is set, then clear the flag
\* by writing a 1 to it
WaitRefresh ==
    /\ pc = "L187"
    /\ "OCF2A" \in TIFR2
    /\ TIFR2' = TIFR2 \ {"OCF2A"}
    /\ pc' = "L168"
    /\ UNCHANGED <<PIND, cycleVars, digit, indexNumber, PORTA, histVars,
                   patVars>>

\* timer 2 (free running since line 149) reaches OCR2A
Timer2Match ==
    /\ "OCF2A" \notin TIFR2
    /\ TIFR2' = TIFR2 \cup {"OCF2A"}
    /\ UNCHANGED <<PIND, cycleVars, digit, indexNumber, PORTA, pc, histVars,
                   patVars>>

----------------------------------------------------------------------------
(* Specifications *)

\* the cycle state machine alone: the main loop does not run
Next ==
    \/ SelectorChange
    \/ INT0_vect
    \/ StartEdgeMasked
    \/ INT1_vect
    \/ TIMER1_COMPA_vect

Spec == Init /\ [][Next]_vars

\* the handlers preempting the main loop at any of its steps
NextAll ==
    \/ SelectorChange
    \/ INT0_vect
    \/ StartEdgeMasked
    \/ INT1_vect
    \/ TIMER1_COMPA_vect
    \/ SelectIndex
    \/ WriteDisplay
    \/ ToggleDigit
    \/ WaitRefresh
    \/ Timer2Match

SpecAll == Init /\ [][NextAll]_vars

----------------------------------------------------------------------------
(* A cycle left to run: no Reset edge, the selector never reads the error   *)
(* level, and timer 1 keeps producing compare matches while it is clocked   *)

InitValid ==
    /\ Init
    /\ waterLevel # 3

SelectorChangeValid ==
    /\ PIND' \in {p \in PINDValues : And3(p) # 3} \ {PIND}
    /\ UNCHANGED <<cycleVars, loopVars, histVars, patVars>>

NextRun ==
    \/ SelectorChangeValid
    \/ INT0_vect
    \/ StartEdgeMasked
    \/ TIMER1_COMPA_vect

SpecRun == InitValid /\ [][NextRun]_vars /\ WF_vars(TIMER1_COMPA_vect)

----------------------------------------------------------------------------
(* The pattern functions on their own: any uint8_t argument, one call *)

InitPattern ==
    /\ MachineInit
    /\ tickArg \in 0..(Byte - 1)
    /\ patOut = [fn |-> "none", val |-> 0]

CallWash ==
    /\ patOut' = [fn |-> "washCycle", val |-> washCycle(tickArg)]
    /\ UNCHANGED <<PIND, cycleVars, loopVars, histVars, tickArg>>

CallRinse ==
    /\ patOut' = [fn |-> "rinseCycle", val |-> rinseCycle(tickArg)]
    /\ UNCHANGED <<PIND, cycleVars, loopVars, histVars, tickArg>>

CallSpin ==
    /\ patOut' = [fn |-> "spinCycle", val |-> spinCycle(tickArg)]
    /\ UNCHANGED <<PIND, cycleVars, loopVars, histVars, tickArg>>

NextPattern ==
    \/ CallWash
    \/ CallRinse
    \/ CallSpin

SpecPattern == InitPattern /\ [][NextPattern]_vars

----------------------------------------------------------------------------
(* Vocabulary of the properties *)

\* duty cycle of the PWM output: OCR0B compare values for off, 10%, 50%, 90%
DutyOff == OCR0B = 255
DutyLow == OCR0B = 230
DutyMid == OCR0B = 128
DutyHigh == OCR0B = 26

StartEnabled == "INT0" \in EIMSK
ResetEnabled == "INT1" \in EIMSK

\* the state reset() leaves behind
Idle ==
    /\ ~active
    /\ "CS12" \notin TCCR1B
    /\ timeCounter = 0
    /\ DutyOff
    /\ PORTC = 0
    /\ StartEnabled
    /\ ResetEnabled

----------------------------------------------------------------------------
(* C1 *)

DoneAt(m, n) ==
    held = m =>
        /\ nTicks <= n
        /\ nTicks < n => (active /\ finished = 0)
        /\ nTicks = n => ~active

ReachesDoneAt(m, n) ==
    (held' = m /\ nTicks = n - 1 /\ nTicks' = n) => (finished' = 1 /\ Idle')

\* C1: with the mode read as Normal at the Start edge and at every tick since,
\* the cycle is running with finished = 0 before the 96th tick, the 96th tick
\* takes it to Done (finished = 1, cycle stopped) and no further tick is
\* handled; with Extended the same holds for the 128th tick.
C1_DoneExactlyOnce ==
    /\ [](DoneAt("Normal", 96) /\ DoneAt("Extended", 128))
    /\ [][ReachesDoneAt("Normal", 96) /\ ReachesDoneAt("Extended", 128)]_vars

C1_Witness ==
    /\ held = "Extended"
    /\ nTicks = 128
    /\ last.ev = "Tick"
    /\ finished = 1

----------------------------------------------------------------------------
(* C2 *)

----------------------------------------------------------------------------
(* C3 *)

\* C3: a Start edge handled while waterLevel = 3 changes nothing: the
\* counter, finished, the PWM, the LEDs, the timer and the interrupt masks
\* are the same after the handler as before it.
C3_InvalidStartNoChange ==
    [][(INT0_vect /\ waterLevel = 3) => UNCHANGED cycleVars]_vars

----------------------------------------------------------------------------
(* C4 *)

\* C4: a Start edge handled with a Normal or Extended selector sets
\* timeCounter = 0, enables the tick, sets the PWM to 10%, the LEDs to
\* washCycle(0) = 1, masks the Start interrupt, leaves the Reset interrupt
\* enabled and leaves finished = 0.
C4_StartEffect ==
    [][(INT0_vect /\ waterLevel # 3) =>
          /\ ~active
          /\ timeCounter' = 0
          /\ active'
          /\ "CS12" \in TCCR1B'
          /\ DutyLow'
          /\ PORTC' = 1
          /\ PORTC' = washCycle(0)
          /\ ~StartEnabled'
          /\ ResetEnabled'
          /\ finished' = 0]_vars

\* a cycle started from Done
C4_Witness ==
    /\ last.ev = "Start"
    /\ last.mode \in {"Normal", "Extended"}
    /\ last.fin = 1
    /\ active
    /\ finished = 0

----------------------------------------------------------------------------
(* C5 *)

\* C5: while a cycle runs the PWM is at 10% as long as timeCounter < 32; the
\* tick that makes timeCounter 32 sets it to 50% in both modes; the tick that
\* makes timeCounter 64 in Normal mode, or 96 in Extended mode, sets it to 90%.
C5_DutyThresholds ==
    /\ []((active /\ timeCounter < 32) => DutyLow)
    /\ [][TIMER1_COMPA_vect =>
             /\ (timeCounter' = 32 /\ timeCounter = 31) => (DutyLow /\ DutyMid')
             /\ (timeCounter' = 64 /\ timeCounter = 63 /\ Mode = "Normal")
                   => (DutyMid /\ DutyHigh')
             /\ (timeCounter' = 64 /\ timeCounter = 63 /\ Mode = "Extended")
                   => DutyMid'
             /\ (timeCounter' = 96 /\ timeCounter = 95 /\ Mode = "Extended")
                   => DutyHigh']_vars

\* an Extended cycle entering its spin from the rinse
C5_Witness ==
    /\ last = [ev |-> "Tick", mode |-> "Extended", fin |-> 0]
    /\ held = "Extended"
    /\ timeCounter = 96
    /\ DutyHigh

----------------------------------------------------------------------------
(* C6 *)

\* C6: a tick that stops the cycle leaves the state reset() leaves (idle,
\* timeCounter = 0, PWM off, LEDs off, Start and Reset enabled, no latched
\* edge) with finished = 1; Start followed by 96 ticks, all read in Normal
\* mode, ends in that state.
C6_DoneIsResetButFinished ==
    /\ [][(TIMER1_COMPA_vect /\ ~active') =>
             (Idle' /\ TCCR1B' = {} /\ EIFR' = {} /\ finished' = 1)]_vars
    /\ []((last.ev = "Tick" /\ held = "Normal" /\ nTicks = 96) =>
             (Idle /\ finished = 1))

\* selector {waterLevel = 1, extendedSelected = false}, Start, 96 ticks
C6_Witness ==
    /\ PIND = 1
    /\ last = [ev |-> "Tick", mode |-> "Normal", fin |-> 0]
    /\ held = "Normal"
    /\ nTicks = 96
    /\ finished = 1
    /\ Idle

----------------------------------------------------------------------------
(* C7 *)

\* C7: a tick handled while waterLevel = 3 changes neither the counter, the
\* LEDs, the PWM, finished nor the interrupt masks, and the cycle stays
\* active; the next tick handled with a valid selector counts on from the
\* same timeCounter.
C7_InvalidTickFreezes ==
    [][TIMER1_COMPA_vect =>
          /\ waterLevel = 3 => (UNCHANGED cycleVars /\ active')
          /\ (waterLevel # 3 /\ last.ev = "Tick" /\ last.mode = "Invalid")
                => (timeCounter' = timeCounter + 1 \/ ~active')]_vars

\* a tick absorbed in the middle of a cycle
C7_Witness ==
    /\ last.ev = "Tick"
    /\ last.mode = "Invalid"
    /\ waterLevel = 3
    /\ active
    /\ timeCounter = 40

----------------------------------------------------------------------------
(* C8 *)

\* C8 as stated: every tick handled during a cycle adds one to timeCounter,
\* whatever the selector reads.
C8_EveryTickCounts ==
    [][TIMER1_COMPA_vect => timeCounter' = timeCounter + 1]_vars

\* C8 amended: a tick handled with a valid selector adds one to timeCounter,
\* and when the sum reaches the end of the cycle (96 or more in Normal mode,
\* 128 in Extended mode) the same handler sets it back to 0; a tick handled
\* while waterLevel = 3 leaves timeCounter as it is.
C8_ValidTickCounts ==
    [][TIMER1_COMPA_vect =>
          /\ waterLevel = 3 => timeCounter' = timeCounter
          /\ (waterLevel # 3 /\ active') => timeCounter' = timeCounter + 1
          /\ (waterLevel # 3 /\ ~active') =>
                /\ timeCounter' = 0
                /\ timeCounter + 1 >= (IF extendedSelected THEN 128 ELSE 96)]_vars

C8_Witness ==
    /\ last.ev = "Tick"
    /\ last.mode = "Extended"
    /\ held = "mixed"
    /\ timeCounter = 50

----------------------------------------------------------------------------
(* C9 *)

\* C9: in every reachable state the Start interrupt is enabled exactly when
\* no cycle is active and the Reset interrupt is enabled; a Start edge
\* latched during a cycle is never pending while Start is enabled, and the
\* Start handler never runs during a cycle.
C9_StartMaskedIffActive ==
    /\ [](/\ StartEnabled <=> ~active
          /\ ResetEnabled
          /\ "INTF0" \in EIFR => ~StartEnabled)
    /\ [][INT0_vect => ~active]_vars

\* Start pressed during a cycle: latched, not handled
C9_Witness ==
    /\ active
    /\ "INTF0" \in EIFR
    /\ timeCounter = 10

----------------------------------------------------------------------------
(* C10 *)

\* C10: finished = 1 only in Done (no cycle active, timeCounter = 0, PWM off,
\* LEDs off), and finished goes from 1 to 0 only in the Start handler or the
\* Reset handler: no tick, selector change or main-loop step clears it.
C10_FinishedOnlyInDone ==
    /\ [](finished = 1 => (~active /\ timeCounter = 0 /\ DutyOff /\ PORTC = 0))
    /\ [][(finished = 1 /\ finished' # 1) => (INT0_vect \/ INT1_vect)]_vars

\* the main loop displays the completion glyph
C10_Witness ==
    /\ finished = 1
    /\ pc = "L180"
    /\ PORTA = 63 + digit * 128

----------------------------------------------------------------------------
(* C11 *)

\* the ticks at which the mode read now ends the rinse and the spin
RinseEndNow == IF extendedSelected THEN 96 ELSE 64
SpinEndNow == IF extendedSelected THEN 128 ELSE 96

\* C11: after a tick handled with a valid selector that does not end the
\* cycle, the LEDs show washCycle(timeCounter) below tick 32,
\* rinseCycle(timeCounter) in the rinse range and spinCycle(timeCounter) in
\* the spin range, the ranges being those of the mode read at this tick
\* (Normal 32..63 / 64..95, Extended 32..95 / 96..127), whatever mode was read
\* at the Start edge.
C11_PatternOfModeAtTick ==
    [][(TIMER1_COMPA_vect /\ waterLevel # 3 /\ active') =>
          /\ timeCounter' < SpinEndNow
          /\ timeCounter' < 32 => PORTC' = washCycle(timeCounter')
          /\ (32 <= timeCounter' /\ timeCounter' < RinseEndNow)
                => PORTC' = rinseCycle(timeCounter')
          /\ (RinseEndNow <= timeCounter' /\ timeCounter' < SpinEndNow)
                => PORTC' = spinCycle(timeCounter')]_vars

\* a cycle started in Normal mode shows the rinse pattern at tick 70 because
\* the tick read Extended
C11_Witness ==
    /\ last = [ev |-> "Tick", mode |-> "Extended", fin |-> 0]
    /\ held = "mixed"
    /\ active
    /\ timeCounter = 70
    /\ PORTC = rinseCycle(70)
    /\ PORTC # spinCycle(70)

----------------------------------------------------------------------------
(* C12 *)

\* the call made on argument t returned v
Returned(f, t, v) == (patOut.fn = f /\ tickArg = t) => patOut.val = v

\* C12 as stated: washCycle(0) = 1, washCycle(8) = 2 and
\* washCycle(16) = 0b1111.
C12_WashValuesStated ==
    /\ Returned("washCycle", 0, 1)
    /\ Returned("washCycle", 8, 2)
    /\ Returned("washCycle", 16, 15)

\* C12 amended: washCycle(0) = 1, washCycle(8) = 1 and washCycle(16) = 0b1111
\* (at tick 8 the half tick is 4 and the sweep is back on LED 0).
C12_WashValues ==
    /\ Returned("washCycle", 0, 1)
    /\ Returned("washCycle", 8, 1)
    /\ Returned("washCycle", 16, 15)

C12_Witness ==
    /\ patOut.fn = "washCycle"
    /\ tickArg = 8
    /\ patOut.val = 1

----------------------------------------------------------------------------
(* C13 *)

\* C13 as stated: rinseCycle(0) = 0b1000, rinseCycle(16) = 0b1111,
\* rinseCycle(18) = 0b1111 and rinseCycle(20) = 0.
C13_RinseValuesStated ==
    /\ Returned("rinseCycle", 0, 8)
    /\ Returned("rinseCycle", 16, 15)
    /\ Returned("rinseCycle", 18, 15)
    /\ Returned("rinseCycle", 20, 0)

\* C13 amended: rinseCycle(0) = 0b1000, rinseCycle(16) = 0b1111,
\* rinseCycle(18) = 0 and rinseCycle(20) = 0b1111 (the blink is on for the
\* ticks with tick mod 4 < 2 and off for the other two).
C13_RinseValues ==
    /\ Returned("rinseCycle", 0, 8)
    /\ Returned("rinseCycle", 16, 15)
    /\ Returned("rinseCycle", 18, 0)
    /\ Returned("rinseCycle", 20, 15)

C13_Witness ==
    /\ patOut.fn = "rinseCycle"
    /\ tickArg = 18
    /\ patOut.val = 0

----------------------------------------------------------------------------
(* C14 *)

\* C14: for every tick in 0..255, with h = tick / 2, spinCycle(tick) is the
\* single bit 1 << (h mod 4) when h mod 16 < 4, the single bit
\* 1 << (3 - (h mod 4)) when 4 <= h mod 16 < 8, and otherwise 0b1111 for an
\* even tick and 0 for an odd tick; spinCycle(0) = 1 and spinCycle(8) = 0b1000.
C14_SpinShape ==
    /\ patOut.fn = "spinCycle" =>
          LET h == tickArg \div 2
              v == patOut.val
          IN  /\ h % 16 < 4 => v = 2 ^ (h % 4)
              /\ (4 <= h % 16 /\ h % 16 < 8) => v = 2 ^ (3 - (h % 4))
              /\ (8 <= h % 16 /\ tickArg % 2 = 0) => v = 15
              /\ (8 <= h % 16 /\ tickArg % 2 = 1) => v = 0
    /\ Returned("spinCycle", 0, 1)
    /\ Returned("spinCycle", 8, 8)

C14_Witness ==
    /\ patOut.fn = "spinCycle"
    /\ tickArg = 8
    /\ patOut.val = 8

----------------------------------------------------------------------------
(* C15 *)

\* C15: for every tick in 0..255 washCycle, rinseCycle and spinCycle return a
\* value in 0..15, and the value on the LED port is in 0..15 in every
\* reachable state.
C15_FourBitMask ==
    /\ \A t \in 0..(Byte - 1) :
          /\ washCycle(t) \in 0..15
          /\ rinseCycle(t) \in 0..15
          /\ spinCycle(t) \in 0..15
    /\ PORTC \in 0..15

\* all four LEDs on, written by a tick
C15_Witness ==
    /\ last.ev = "Tick"
    /\ active
    /\ timeCounter = 16
    /\ PORTC = 15

----------------------------------------------------------------------------
(* C16 *)

\* the 7-bit segment masks of the five table entries
SegmentMask(i) == <<8, 1, 64, 121, 84>>[i + 1]

\* bit 7 of a frame and its segment bits
DigitSelect(frame) == frame \div 128
Segments(frame) == frame % 128

\* C16: the index chosen for digit 0 is the water level read and for digit 1
\* it is 3 if the mode switch reads extended, else 4; the index and the digit
\* stay as chosen until the frame is written; the frame written has
\* digit-select = digit and segments = 63 if finished = 1, else the 7-bit
\* mask of the table entry at the index; the masks of entries 3 and 4 differ;
\* digit toggles after the write, so each frame selects the other digit than
\* the frame before it.  All of it with the handlers running in between.
C16_Frames ==
    /\ [][SelectIndex =>
             /\ digit = 0 => indexNumber' = waterLevel
             /\ digit = 1 => indexNumber' = (IF extendedSelected THEN 3 ELSE 4)]_vars
    /\ [][(pc = "L178" /\ pc' = "L178") =>
             (indexNumber' = indexNumber /\ digit' = digit)]_vars
    /\ [][WriteDisplay =>
             /\ DigitSelect(PORTA') = digit
             /\ finished = 1 => Segments(PORTA') = 63
             /\ finished # 1 => Segments(PORTA') = SegmentMask(indexNumber)
             /\ PORTA # 0 => DigitSelect(PORTA') = 1 - DigitSelect(PORTA)]_vars
    /\ [][ToggleDigit => digit' = 1 - digit]_vars
    /\ [](digit \in {0, 1} /\ indexNumber \in 0..4)
    /\ [](pc = "L178" => (digit = 0 => indexNumber \in 0..3)
                         /\ (digit = 1 => indexNumber \in {3, 4}))
    /\ [](SegmentMask(3) # SegmentMask(4))

\* the mode symbol of the extended cycle on the left digit, during a cycle
C16_Witness ==
    /\ pc = "L180"
    /\ digit = 1
    /\ active
    /\ finished = 0
    /\ PORTA = 121 + 128

----------------------------------------------------------------------------
(* C17 *)

\* C17: no Start, Reset or tick handler changes digit, indexNumber, the
\* display port or the position of the main loop, and no step of the main
\* loop changes the counter, finished, the tick enable, the LEDs, the PWM or
\* the interrupt masks, wherever in the loop a handler runs.
C17_SharedOnlyFinished ==
    /\ [][(INT0_vect \/ StartEdgeMasked \/ INT1_vect \/ TIMER1_COMPA_vect) =>
             UNCHANGED <<digit, indexNumber, PORTA, pc, TIFR2>>]_vars
    /\ [][(SelectIndex \/ WriteDisplay \/ ToggleDigit \/ WaitRefresh
           \/ Timer2Match) => UNCHANGED cycleVars]_vars

\* a handler ran between the write of a frame and the toggle of digit: the
\* frame on the bus is the completion glyph and finished is already 0
C17_Witness ==
    /\ pc = "L180"
    /\ Segments(PORTA) = 63
    /\ finished = 0
    /\ last.ev = "Reset"

----------------------------------------------------------------------------
(* C18 *)

\* position of the PWM level in the order Low, Mid, High, Off; the level is
\* the phase of the last tick: Low = Wash, Mid = Rinse, High = Spin
DutyRank ==
    IF DutyLow THEN 1 ELSE IF DutyMid THEN 2 ELSE IF DutyHigh THEN 3 ELSE 4

\* C18 as stated: no tick moves the phase or the PWM level backward in the
\* order Wash/Low, Rinse/Mid, Spin/High, Done/Off, whatever the selector does
\* between ticks.
C18_ForwardOnly ==
    [][TIMER1_COMPA_vect => DutyRank' >= DutyRank]_vars

\* C18 amended: a tick moves the phase and the PWM level backward only from
\* Spin/High to Rinse/Mid, and only when it reads Extended mode after the
\* spin was entered on a tick that read Normal mode (timeCounter becoming
\* 65..95); as long as every tick reads the mode read at Start no tick moves
\* them backward.
C18_ForwardButHandOff ==
    [][TIMER1_COMPA_vect =>
          \/ DutyRank' >= DutyRank
          \/ /\ DutyHigh
             /\ DutyMid'
             /\ Mode = "Extended"
             /\ held' = "mixed"
             /\ timeCounter' \in 65..95
             /\ PORTC' = rinseCycle(timeCounter')]_vars

\* the hand-off: back in the rinse at tick 65
C18_Witness ==
    /\ last = [ev |-> "Tick", mode |-> "Extended", fin |-> 0]
    /\ held = "mixed"
    /\ timeCounter = 65
    /\ nInc = 65
    /\ DutyMid

----------------------------------------------------------------------------
(* C19 *)

\* C19: with no Reset edge, a valid selector at every tick and ticks that
\* keep coming, a running cycle always reaches Done, however the mode switch
\* is moved; the counter was incremented at least 96 and at most 128 times
\* between the Start edge and Done.
C19_Terminates ==
    /\ active ~> (~active /\ finished = 1)
    /\ [](finished = 1 => (nInc >= 96 /\ nInc <= 128))
    /\ [][(TIMER1_COMPA_vect /\ ~active') => (nInc' >= 96 /\ nInc' <= 128)]_vars

\* Done after 100 increments: Extended until tick 99, Normal at tick 100
C19_Witness ==
    /\ finished = 1
    /\ ~active
    /\ nInc = 100
    /\ held = "mixed"

----------------------------------------------------------------------------
(* C20 *)

\* C20: between handlers timeCounter is in 0..127, so the 8-bit counter never
\* wraps, and it is 0 whenever no cycle is active.
C20_NoWrap ==
    /\ timeCounter \in 0..127
    /\ ~active => timeCounter = 0

\* the last tick value of an extended cycle
C20_Witness ==
    /\ active
    /\ timeCounter = 127
    /\ last.ev = "Tick"

====
